---- MODULE Spec2Model ----
(***************************************************************************)
(* Model of src/airport.py: the resource pools (Gate, Runway), the Flight  *)
(* state machine, and the Airport operations that orchestrate them.        *)
(* Every method is a pure operator over the airport state                  *)
(*   S = [gates, runways, flights]                                         *)
(* returning the state after the call together with the exception class    *)
(* it raised ("ok" when it returned normally) and its return value.        *)
(***************************************************************************)
EXTENDS Integers, Sequences, FiniteSets, TLC

\* gates, runways, flights: the lists of an Airport
\* schedule: the dict of a Schedule, as its list of entries in insertion order
\* calls: the Airport calls in progress when callers run them concurrently
VARIABLES gates, runways, flights, schedule, calls

vars == <<gates, runways, flights, schedule, calls>>

\* ------------------------------------------------------------- bounds
\* pool and registry sizes when only the Airport operations run
MaxGates == 2
MaxRunways == 2
MaxFlights == 2
\* pool and registry sizes when boarding or direct calls run as well
MaxGatesOrch == 2
MaxRunwaysOrch == 1
MaxFlightsOrch == 1
\* PassengerAircraft(seat_rows = 1, seats_per_row = MaxSeats)
MaxSeats == 2
\* board_passengers(count) is called with count in -MaxNeg .. MaxCount
MaxNeg == 1
MaxCount == 2
\* passengers_checked_in is followed down to -MaxDebt
MaxDebt == 1

\* ------------------------------------------------------------- values
\* Python's None for the Optional[int] fields (ids start at 1)
None == 0

FlightStatus ==
  {"PLANNED", "BOARDING", "READY", "TAXI", "AIRBORNE", "LANDED", "CANCELLED"}

RunwayStatus == {"FREE", "IN_USE", "MAINTENANCE"}

OK == "ok"

PassengerAircraft == [kind |-> "PassengerAircraft", seat_rows |-> 1,
                      seats_per_row |-> MaxSeats, max_payload_kg |-> 0]

CargoAircraft == [kind |-> "CargoAircraft", seat_rows |-> 0,
                  seats_per_row |-> 0, max_payload_kg |-> 1]

Aircrafts == {PassengerAircraft, CargoAircraft}

capacity(a) ==
  IF a.kind = "PassengerAircraft" THEN a.seat_rows * a.seats_per_row
  ELSE a.max_payload_kg

\* Gate(name, max_wingspan_m): occupied_by = None, id from the gate counter
Gate(id) == [id |-> id, occupied_by |-> None]

\* Runway(name, length_m, status): current_flight = None, id from the counter
Runway(id, status) == [id |-> id, status |-> status, current_flight |-> None]

\* Flight(...): PLANNED, no gate, no runway, nobody checked in
Flight(id, aircraft) ==
  [id |-> id, aircraft |-> aircraft, status |-> "PLANNED", gate_id |-> None,
   runway_id |-> None, passengers_checked_in |-> 0]

State == [gates |-> gates, runways |-> runways, flights |-> flights]

\* a call that returned normally / raised: the state it leaves, the exception
\* class, the returned object's id
Result(S, err, ret) ==
  [gates |-> S.gates, runways |-> S.runways, flights |-> S.flights,
   err |-> err, ret |-> ret]

Min(s) == CHOOSE k \in s : \A j \in s : k <= j
Max(s) == CHOOSE k \in s : \A j \in s : k >= j

\* ------------------------------------------------------------- Gate
\* mutant: every gate counts as free
is_free_always(g) == TRUE

is_free(g) == g.occupied_by = None

Gate_assign(g, flight_id) ==
  IF ~is_free(g) THEN [err |-> "ValueError", gate |-> g]
  ELSE [err |-> OK, gate |-> [g EXCEPT !.occupied_by = flight_id]]

Gate_release(g) == [g EXCEPT !.occupied_by = None]

\* mutant: the status is not looked at
is_available_any_status(r) == r.current_flight = None

\* ------------------------------------------------------------- Runway
is_available(r) == r.status = "FREE" /\ r.current_flight = None

Runway_occupy(r, flight_id) ==
  IF ~is_available(r) THEN [err |-> "ValueError", runway |-> r]
  ELSE [err |-> OK,
        runway |-> [r EXCEPT !.current_flight = flight_id, !.status = "IN_USE"]]

\* mutant: the status is left as it was
Runway_release_keeps_status(r) == [r EXCEPT !.current_flight = None]

\* mutant: only a runway in use becomes FREE, any other is closed
Runway_release_closes_unused(r) ==
  [r EXCEPT !.current_flight = None,
            !.status = IF @ = "IN_USE" THEN "FREE" ELSE "MAINTENANCE"]

Runway_release(r) == [r EXCEPT !.current_flight = None, !.status = "FREE"]

\* ------------------------------------------------------------- Flight
set_status(f, new_status) == [f EXCEPT !.status = new_status]

\* mutant: the status is not validated
board_passengers_any_status(f, count) ==
  IF f.aircraft.kind # "PassengerAircraft" THEN [err |-> "ValueError", flight |-> f]
  ELSE LET new_total == f.passengers_checked_in + count IN
    IF new_total > capacity(f.aircraft)
    THEN [err |-> "CapacityExceededError", flight |-> f]
    ELSE LET g == [f EXCEPT !.passengers_checked_in = new_total] IN
      [err |-> OK,
       flight |-> IF g.passengers_checked_in = capacity(g.aircraft)
                  THEN [g EXCEPT !.status = "READY"] ELSE g]

board_passengers(f, count) ==
  IF f.aircraft.kind # "PassengerAircraft" THEN [err |-> "ValueError", flight |-> f]
  ELSE IF f.status \notin {"BOARDING", "PLANNED"}
    THEN [err |-> "ValueError", flight |-> f]
  ELSE LET new_total == f.passengers_checked_in + count IN
    IF new_total > capacity(f.aircraft)
    THEN [err |-> "CapacityExceededError", flight |-> f]
    ELSE LET g == [f EXCEPT !.passengers_checked_in = new_total] IN
      [err |-> OK,
       flight |-> IF g.passengers_checked_in = capacity(g.aircraft)
                  THEN [g EXCEPT !.status = "READY"] ELSE g]

\* mutant: every BOARDING flight is promoted, boarded or not
auto_ready_any_boarding(fs) ==
  [i \in 1..Len(fs) |->
     IF fs[i].status = "BOARDING" THEN set_status(fs[i], "READY") ELSE fs[i]]

\* ------------------------------------------------------------- Scheduler
auto_ready_if_boarded(fs) ==
  [i \in 1..Len(fs) |->
     IF fs[i].status = "BOARDING"
        /\ fs[i].passengers_checked_in = capacity(fs[i].aircraft)
     THEN set_status(fs[i], "READY") ELSE fs[i]]

\* ------------------------------------------------------------- Airport
\* the index in the list of the first element with this id, 0 when there is none
index_of(seq, id) ==
  LET hits == {i \in 1..Len(seq) : seq[i].id = id} IN
  IF hits = {} THEN 0 ELSE Min(hits)

find_flight(fs, flight_id) == index_of(fs, flight_id)

\* mutant: the scan keeps the last free gate it sees
last_free_gate(gs) ==
  LET hits == {k \in 1..Len(gs) : is_free(gs[k])} IN
  IF hits = {} THEN 0 ELSE Max(hits)

\* the scan "for g in self.gates: if g.is_free()": index of the first hit, or 0
first_free_gate(gs) ==
  LET hits == {k \in 1..Len(gs) : is_free(gs[k])} IN
  IF hits = {} THEN 0 ELSE Min(hits)

\* the scan "for r in self.runways: if r.is_available()"
first_available_runway(rs) ==
  LET hits == {k \in 1..Len(rs) : is_available(rs[k])} IN
  IF hits = {} THEN 0 ELSE Min(hits)

assign_gate(S, flight_id) ==
  LET i == find_flight(S.flights, flight_id) IN
  IF i = 0 THEN Result(S, "FlightNotFoundError", None)
  ELSE LET k == first_free_gate(S.gates) IN
    IF k = 0 THEN Result(S, "GateNotAvailableError", None)
    ELSE LET a == Gate_assign(S.gates[k], flight_id) IN
      IF a.err # OK THEN Result(S, a.err, None)
      ELSE [gates |-> [S.gates EXCEPT ![k] = a.gate],
            runways |-> S.runways,
            flights |-> [S.flights EXCEPT ![i].gate_id = a.gate.id],
            err |-> OK, ret |-> a.gate.id]

\* mutant: the flight keeps its reference to the released gate
release_gate_keeps_reference(S, flight_id) ==
  LET i == find_flight(S.flights, flight_id) IN
  IF i = 0 THEN Result(S, "FlightNotFoundError", None)
  ELSE IF S.flights[i].gate_id = None THEN Result(S, OK, None)
  ELSE LET k == index_of(S.gates, S.flights[i].gate_id) IN
    IF k = 0 THEN Result(S, OK, None)
    ELSE [gates |-> [S.gates EXCEPT ![k] = Gate_release(S.gates[k])],
          runways |-> S.runways,
          flights |-> S.flights,
          err |-> OK, ret |-> None]

release_gate(S, flight_id) ==
  LET i == find_flight(S.flights, flight_id) IN
  IF i = 0 THEN Result(S, "FlightNotFoundError", None)
  ELSE IF S.flights[i].gate_id = None THEN Result(S, OK, None)
  ELSE LET k == index_of(S.gates, S.flights[i].gate_id) IN
    IF k = 0 THEN Result(S, OK, None)
    ELSE [gates |-> [S.gates EXCEPT ![k] = Gate_release(S.gates[k])],
          runways |-> S.runways,
          flights |-> [S.flights EXCEPT ![i].gate_id = None],
          err |-> OK, ret |-> None]

\* mutant: the flight's status is left as it was
assign_runway_keeps_status(S, flight_id) ==
  LET i == find_flight(S.flights, flight_id) IN
  IF i = 0 THEN Result(S, "FlightNotFoundError", None)
  ELSE LET k == first_available_runway(S.runways) IN
    IF k = 0 THEN Result(S, "RunwayNotAvailableError", None)
    ELSE LET o == Runway_occupy(S.runways[k], flight_id) IN
      IF o.err # OK THEN Result(S, o.err, None)
      ELSE [gates |-> S.gates,
            runways |-> [S.runways EXCEPT ![k] = o.runway],
            flights |-> [S.flights EXCEPT ![i].runway_id = o.runway.id],
            err |-> OK, ret |-> o.runway.id]

assign_runway_for_departure(S, flight_id) ==
  LET i == find_flight(S.flights, flight_id) IN
  IF i = 0 THEN Result(S, "FlightNotFoundError", None)
  ELSE LET k == first_available_runway(S.runways) IN
    IF k = 0 THEN Result(S, "RunwayNotAvailableError", None)
    ELSE LET o == Runway_occupy(S.runways[k], flight_id) IN
      IF o.err # OK THEN Result(S, o.err, None)
      ELSE [gates |-> S.gates,
            runways |-> [S.runways EXCEPT ![k] = o.runway],
            flights |-> [S.flights EXCEPT
                           ![i] = set_status([@ EXCEPT !.runway_id = o.runway.id],
                                             "TAXI")],
            err |-> OK, ret |-> o.runway.id]

\* mutant: the gate is not released
depart_keeps_gate(S, flight_id) ==
  LET i == find_flight(S.flights, flight_id) IN
  IF i = 0 THEN Result(S, "FlightNotFoundError", None)
  ELSE IF S.flights[i].status \notin {"READY", "TAXI"} THEN Result(S, "ValueError", None)
  ELSE IF S.flights[i].runway_id = None THEN Result(S, "ValueError", None)
  ELSE LET f1 == set_status(S.flights[i], "AIRBORNE")
           k == index_of(S.runways, f1.runway_id)
       IN [gates |-> S.gates,
           runways |-> IF k = 0 THEN S.runways
                       ELSE [S.runways EXCEPT ![k] = Runway_release(S.runways[k])],
           flights |-> [S.flights EXCEPT
                          ![i] = IF k = 0 THEN f1 ELSE [f1 EXCEPT !.runway_id = None]],
           err |-> OK, ret |-> None]

depart(S, flight_id) ==
  LET i == find_flight(S.flights, flight_id) IN
  IF i = 0 THEN Result(S, "FlightNotFoundError", None)
  ELSE IF S.flights[i].status \notin {"READY", "TAXI"} THEN Result(S, "ValueError", None)
  ELSE IF S.flights[i].runway_id = None THEN Result(S, "ValueError", None)
  ELSE LET f1 == set_status(S.flights[i], "AIRBORNE")
           k == index_of(S.runways, f1.runway_id)
           S1 == [gates |-> S.gates,
                  runways |-> IF k = 0 THEN S.runways
                              ELSE [S.runways EXCEPT ![k] = Runway_release(S.runways[k])],
                  flights |-> [S.flights EXCEPT
                                 ![i] = IF k = 0 THEN f1
                                        ELSE [f1 EXCEPT !.runway_id = None]]]
       IN release_gate(S1, flight_id)

\* mutant: the status is written before it is validated
arrive_writes_first(S, flight_id) ==
  LET i == find_flight(S.flights, flight_id) IN
  IF i = 0 THEN Result(S, "FlightNotFoundError", None)
  ELSE LET S1 == [gates |-> S.gates, runways |-> S.runways,
                  flights |-> [S.flights EXCEPT ![i] = set_status(@, "LANDED")]] IN
    IF S.flights[i].status # "AIRBORNE" THEN Result(S1, "ValueError", None)
    ELSE Result(S1, OK, None)

\* mutant: a taxiing flight is accepted as well
arrive_from_taxi(S, flight_id) ==
  LET i == find_flight(S.flights, flight_id) IN
  IF i = 0 THEN Result(S, "FlightNotFoundError", None)
  ELSE IF S.flights[i].status \notin {"AIRBORNE", "TAXI"}
    THEN Result(S, "ValueError", None)
  ELSE [gates |-> S.gates, runways |-> S.runways,
        flights |-> [S.flights EXCEPT ![i] = set_status(@, "LANDED")],
        err |-> OK, ret |-> None]

arrive(S, flight_id) ==
  LET i == find_flight(S.flights, flight_id) IN
  IF i = 0 THEN Result(S, "FlightNotFoundError", None)
  ELSE IF S.flights[i].status # "AIRBORNE" THEN Result(S, "ValueError", None)
  ELSE [gates |-> S.gates, runways |-> S.runways,
        flights |-> [S.flights EXCEPT ![i] = set_status(@, "LANDED")],
        err |-> OK, ret |-> None]

\* ------------------------------------------------------------- state machine
\* the callers that may run Airport calls concurrently
Threads == {1, 2}

\* no call in progress
Idle == [op |-> "none", pc |-> "idle", fid |-> None, k |-> 0, err |-> OK]

Init ==
  /\ gates = <<>>
  /\ runways = <<>>
  /\ flights = <<>>
  /\ schedule = <<>>
  /\ calls = [t \in Threads |-> Idle]

\* the flight ids callers pass: registered ones and ones not (yet) registered
FlightIds == 1..MaxFlights

\* add_gate(Gate(...)), while the pool has fewer than n gates
AddGate(n) ==
  /\ Len(gates) < n
  /\ gates' = Append(gates, Gate(Len(gates) + 1))
  /\ UNCHANGED <<runways, flights, schedule, calls>>

\* add_runway(Runway(...)), a runway that is open or under maintenance
AddRunway(n) ==
  /\ Len(runways) < n
  /\ \E st \in {"FREE", "MAINTENANCE"} :
       runways' = Append(runways, Runway(Len(runways) + 1, st))
  /\ UNCHANGED <<gates, flights, schedule, calls>>

\* add_flight(Flight(...)) with an aircraft of one of the kinds
AddFlight(n, kinds) ==
  /\ Len(flights) < n
  /\ \E a \in kinds :
       flights' = Append(flights, Flight(Len(flights) + 1, a))
  /\ UNCHANGED <<gates, runways, schedule, calls>>

AssignGate ==
  \E fid \in FlightIds :
    LET r == assign_gate(State, fid) IN
    /\ gates' = r.gates
    /\ runways' = r.runways
    /\ flights' = r.flights
    /\ UNCHANGED <<schedule, calls>>

ReleaseGate ==
  \E fid \in FlightIds :
    LET r == release_gate(State, fid) IN
    /\ gates' = r.gates
    /\ runways' = r.runways
    /\ flights' = r.flights
    /\ UNCHANGED <<schedule, calls>>

AssignRunwayForDeparture ==
  \E fid \in FlightIds :
    LET r == assign_runway_for_departure(State, fid) IN
    /\ gates' = r.gates
    /\ runways' = r.runways
    /\ flights' = r.flights
    /\ UNCHANGED <<schedule, calls>>

Depart ==
  \E fid \in FlightIds :
    LET r == depart(State, fid) IN
    /\ gates' = r.gates
    /\ runways' = r.runways
    /\ flights' = r.flights
    /\ UNCHANGED <<schedule, calls>>

Arrive ==
  \E fid \in FlightIds :
    LET r == arrive(State, fid) IN
    /\ gates' = r.gates
    /\ runways' = r.runways
    /\ flights' = r.flights
    /\ UNCHANGED <<schedule, calls>>

Counts == (0 - MaxNeg)..MaxCount

\* Flight.board_passengers on a flight of the airport
BoardPassengers ==
  \E i \in 1..Len(flights), count \in Counts :
    LET b == board_passengers(flights[i], count) IN
    /\ b.flight.passengers_checked_in >= 0 - MaxDebt
    /\ flights' = [flights EXCEPT ![i] = b.flight]
    /\ UNCHANGED <<gates, runways, schedule, calls>>

AutoReadyIfBoarded ==
  /\ flights' = auto_ready_if_boarded(flights)
  /\ UNCHANGED <<gates, runways, schedule, calls>>

\* Flight.set_status called by the caller, as run_demo does before boarding
SetStatus ==
  \E i \in 1..Len(flights), st \in FlightStatus :
    /\ flights' = [flights EXCEPT ![i] = set_status(@, st)]
    /\ UNCHANGED <<gates, runways, schedule, calls>>

\* Runway.occupy / Runway.release called on a runway of the airport
RunwayOccupy ==
  \E k \in 1..Len(runways), fid \in FlightIds :
    /\ runways' = [runways EXCEPT ![k] = Runway_occupy(@, fid).runway]
    /\ UNCHANGED <<gates, flights, schedule, calls>>

RunwayRelease ==
  \E k \in 1..Len(runways) :
    /\ runways' = [runways EXCEPT ![k] = Runway_release(@)]
    /\ UNCHANGED <<gates, flights, schedule, calls>>

\* the Airport operations alone (they never read the aircraft)
NextAirport ==
  \/ AddGate(MaxGates) \/ AddRunway(MaxRunways)
  \/ AddFlight(MaxFlights, {PassengerAircraft})
  \/ AssignGate \/ ReleaseGate
  \/ AssignRunwayForDeparture \/ Depart \/ Arrive

SpecAirport == Init /\ [][NextAirport]_vars

\* the Airport operations, boarding and the scheduler's pass
NextOrch ==
  \/ AddGate(MaxGatesOrch) \/ AddRunway(MaxRunwaysOrch)
  \/ AddFlight(MaxFlightsOrch, Aircrafts)
  \/ AssignGate \/ ReleaseGate
  \/ AssignRunwayForDeparture \/ Depart \/ Arrive
  \/ BoardPassengers \/ AutoReadyIfBoarded

SpecOrch == Init /\ [][NextOrch]_vars

\* the Airport operations and direct calls of Runway.occupy / Runway.release
NextRunway ==
  \/ AddGate(MaxGatesOrch) \/ AddRunway(MaxRunwaysOrch)
  \/ AddFlight(MaxFlightsOrch, {PassengerAircraft})
  \/ AssignGate \/ ReleaseGate
  \/ AssignRunwayForDeparture \/ Depart \/ Arrive
  \/ RunwayOccupy \/ RunwayRelease

SpecRunway == Init /\ [][NextRunway]_vars

\* the Airport operations and direct calls of Flight.set_status
NextStatus ==
  \/ AddGate(MaxGatesOrch) \/ AddRunway(MaxRunwaysOrch)
  \/ AddFlight(MaxFlightsOrch, {PassengerAircraft})
  \/ AssignGate \/ ReleaseGate
  \/ AssignRunwayForDeparture \/ Depart \/ Arrive
  \/ SetStatus

SpecStatus == Init /\ [][NextStatus]_vars

\* every operation, direct Flight.set_status included
Next ==
  \/ AddGate(MaxGatesOrch) \/ AddRunway(MaxRunwaysOrch)
  \/ AddFlight(MaxFlightsOrch, Aircrafts)
  \/ AssignGate \/ ReleaseGate
  \/ AssignRunwayForDeparture \/ Depart \/ Arrive
  \/ BoardPassengers \/ AutoReadyIfBoarded
  \/ SetStatus

Spec == Init /\ [][Next]_vars

\* ------------------------------------------------------------- claims
Flights == 1..Len(flights)
Gates == 1..Len(gates)
Runways == 1..Len(runways)

\* the flights that record this gate / this runway as held
GateHolders(gid) == {i \in Flights : flights[i].gate_id = gid}
RunwayHolders(rid) == {i \in Flights : flights[i].runway_id = rid}

\* C1: every gate whose occupied_by is set is recorded as held by exactly one
\* flight of the airport, and that flight is the one occupied_by names.
C1_OccupiedGateHasOneHolder ==
  \A k \in Gates :
    gates[k].occupied_by # None =>
      /\ Cardinality(GateHolders(gates[k].id)) = 1
      /\ \A i \in GateHolders(gates[k].id) : flights[i].id = gates[k].occupied_by

\* C2: no two distinct flights record the same gate id as their held gate, and
\* no two distinct flights record the same runway id as their held runway.
C2_ExclusiveUse ==
  \A i, j \in Flights :
    i # j =>
      /\ flights[i].gate_id # None => flights[i].gate_id # flights[j].gate_id
      /\ flights[i].runway_id # None => flights[i].runway_id # flights[j].runway_id

\* two flights each hold a gate and a runway at the same time
C2_Witness ==
  /\ Len(flights) >= 2
  /\ \A i \in 1..2 : flights[i].gate_id # None /\ flights[i].runway_id # None

\* ---- C3
IsPassenger(f) == f.aircraft.kind = "PassengerAircraft"

\* the three calls of the scenario on flight f: board a, board C - a, board 1
Board3(f, a) ==
  LET r1 == board_passengers(f, a)
      r2 == board_passengers(r1.flight, capacity(f.aircraft) - a)
      r3 == board_passengers(r2.flight, 1)
  IN <<r1, r2, r3>>

\* boarding a and then C - a succeeds and leaves READY with C checked in, and
\* the third call leaves C checked in and fails with the error kind `kind`
Board3Ends(kind) ==
  \A i \in Flights :
    LET f == flights[i]
        C == capacity(f.aircraft)
    IN (IsPassenger(f) /\ f.status = "PLANNED" /\ f.passengers_checked_in = 0) =>
         \A a \in 1..(C - 1) :
           LET r == Board3(f, a) IN
           /\ r[1].err = OK
           /\ r[2].err = OK
           /\ r[2].flight.status = "READY"
           /\ r[2].flight.passengers_checked_in = C
           /\ r[3].err = kind
           /\ r[3].flight.passengers_checked_in = C

\* C3 as claimed: on a PLANNED passenger flight with capacity C and nobody
\* checked in, board(a) and board(C - a) succeed and leave READY with C checked
\* in; a further board(1) fails with CapacityExceededError and leaves C.
C3_FurtherBoardingCapacityExceeded == Board3Ends("CapacityExceededError")

\* C3 as amended: the further board(1) fails with the ValueError of the status
\* check (the flight is READY), not with CapacityExceededError.
C3_FurtherBoardingInvalidState == Board3Ends("ValueError")

\* a flight boarded to capacity, on which one more passenger is refused
C3_Witness ==
  \E i \in Flights :
    /\ IsPassenger(flights[i])
    /\ capacity(flights[i].aircraft) >= 2
    /\ flights[i].status = "READY"
    /\ flights[i].passengers_checked_in = capacity(flights[i].aircraft)
    /\ board_passengers(flights[i], 1).err = "ValueError"

\* ---- C4
LegalEdges ==
  {<<"PLANNED", "READY">>, <<"BOARDING", "READY">>, <<"READY", "TAXI">>,
   <<"READY", "AIRBORNE">>, <<"TAXI", "AIRBORNE">>, <<"AIRBORNE", "LANDED">>}

\* C4: without direct set_status calls, every change of a flight's status
\* follows one of the canonical edges (so nothing moves back to TAXI and no
\* PLANNED flight moves directly to TAXI).
C4_CanonicalTransitions ==
  [][\A i \in Flights :
       flights'[i].status # flights[i].status =>
         <<flights[i].status, flights'[i].status>> \in LegalEdges]_vars

\* ---- C5
\* a call that raised left the airport as it was
Untouched(r) ==
  r.err # OK => r.gates = gates /\ r.runways = runways /\ r.flights = flights

\* C5: whenever assign_gate, release_gate, assign_runway_for_departure, depart,
\* arrive or board_passengers raises, the whole state is as before the call.
C5_FailedCallChangesNothing ==
  /\ \A fid \in FlightIds :
       /\ Untouched(assign_gate(State, fid))
       /\ Untouched(release_gate(State, fid))
       /\ Untouched(assign_runway_for_departure(State, fid))
       /\ Untouched(depart(State, fid))
       /\ Untouched(arrive(State, fid))
  /\ \A i \in Flights, count \in Counts :
       LET b == board_passengers(flights[i], count) IN
       b.err # OK => b.flight = flights[i]

\* every kind of failure is at hand: no gate free, no runway available, a
\* flight that can neither depart nor arrive, a boarding beyond the capacity
C5_Witness ==
  \E fid \in FlightIds :
    /\ Len(gates) > 0
    /\ Len(runways) > 0
    /\ assign_gate(State, fid).err = "GateNotAvailableError"
    /\ assign_runway_for_departure(State, fid).err = "RunwayNotAvailableError"
    /\ depart(State, fid).err = "ValueError"
    /\ arrive(State, fid).err = "ValueError"
    /\ \E i \in Flights, count \in Counts :
         board_passengers(flights[i], count).err = "CapacityExceededError"

\* ---- C6
\* C6: a passenger flight's passengers_checked_in stays within 0 .. capacity.
C6_CheckedInWithinCapacity ==
  \A i \in Flights :
    IsPassenger(flights[i]) =>
      /\ 0 <= flights[i].passengers_checked_in
      /\ flights[i].passengers_checked_in <= capacity(flights[i].aircraft)

\* ---- C7
\* the airport with the primed (next-state) pools and registry
StateNext == [gates |-> gates', runways |-> runways', flights |-> flights']

\* what a successful depart of flight number i (index) must have done
DepartedCleanly(r, i) ==
  LET f == flights[i] IN
  /\ f.status \in {"READY", "TAXI"}
  /\ f.runway_id # None
  /\ r.flights = [flights EXCEPT ![i] = [f EXCEPT !.status = "AIRBORNE",
                                                  !.runway_id = None,
                                                  !.gate_id = None]]
  /\ Len(r.runways) = Len(runways)
  /\ \A k \in Runways :
       IF runways[k].id = f.runway_id
       THEN r.runways[k] = [runways[k] EXCEPT !.status = "FREE",
                                              !.current_flight = None]
       ELSE r.runways[k] = runways[k]
  /\ Len(r.gates) = Len(gates)
  /\ \A k \in Gates :
       IF gates[k].id = f.gate_id
       THEN r.gates[k] = [gates[k] EXCEPT !.occupied_by = None]
       ELSE r.gates[k] = gates[k]

\* C7: a successful depart(f) starts from READY or TAXI with a held runway and
\* leaves f AIRBORNE with no runway and no gate, the runway it held FREE with
\* no current flight, the gate it held free, and everything else unchanged.
C7_DepartReleasesEverything ==
  \A fid \in FlightIds :
    LET r == depart(State, fid) IN
    (find_flight(flights, fid) # 0 /\ r.err = OK) =>
      DepartedCleanly(r, find_flight(flights, fid))

\* a READY flight that holds a runway and a gate, about to depart
C7_Witness ==
  \E i \in Flights :
    /\ flights[i].status = "READY"
    /\ flights[i].runway_id # None
    /\ flights[i].gate_id # None
    /\ depart(State, flights[i].id).err = OK
    /\ depart(State, flights[i].id).flights[i].status = "AIRBORNE"

\* ---- C8
BadStatus(S, fid) ==
  /\ find_flight(S.flights, fid) # 0
  /\ S.flights[find_flight(S.flights, fid)].status \notin {"READY", "TAXI"}

NoRunway(S, fid) ==
  /\ find_flight(S.flights, fid) # 0
  /\ S.flights[find_flight(S.flights, fid)].status \in {"READY", "TAXI"}
  /\ S.flights[find_flight(S.flights, fid)].runway_id = None

\* C8: depart(f) fails whenever f's status is not READY or TAXI, fails when the
\* status is READY or TAXI and f holds no runway, succeeds in the remaining
\* cases of a known flight, and the two failures are different error kinds:
\* a caller who sees one before a step and the other after it can tell them
\* apart.
C8_DepartFailuresDistinguishable ==
  [][\A fid \in FlightIds :
       /\ BadStatus(State, fid) => depart(State, fid).err # OK
       /\ NoRunway(State, fid) => depart(State, fid).err # OK
       /\ (find_flight(flights, fid) # 0 /\ ~BadStatus(State, fid)
             /\ ~NoRunway(State, fid)) => depart(State, fid).err = OK
       /\ (BadStatus(State, fid) /\ NoRunway(StateNext, fid)) =>
            depart(State, fid).err # depart(StateNext, fid).err]_vars

\* ---- C9
\* a successful assign_gate took the first free gate of the list, and only it
TookFirstFreeGate(r, i) ==
  \E k \in Gates :
    /\ r.ret = gates[k].id
    /\ gates[k].occupied_by = None
    /\ \A j \in 1..(k - 1) : gates[j].occupied_by # None
    /\ r.gates = [gates EXCEPT ![k].occupied_by = flights[i].id]
    /\ r.runways = runways
    /\ r.flights = [flights EXCEPT ![i].gate_id = gates[k].id]

Available(rw) == rw.status = "FREE" /\ rw.current_flight = None

\* a successful assign_runway_for_departure took the first available runway
TookFirstAvailableRunway(r, i) ==
  \E k \in Runways :
    /\ r.ret = runways[k].id
    /\ Available(runways[k])
    /\ \A j \in 1..(k - 1) : ~Available(runways[j])
    /\ r.runways = [runways EXCEPT ![k].current_flight = flights[i].id,
                                   ![k].status = "IN_USE"]
    /\ r.gates = gates
    /\ r.flights = [flights EXCEPT ![i].runway_id = runways[k].id,
                                   ![i].status = "TAXI"]

\* C9: for a registered flight, assign_gate occupies and returns the free gate
\* with the smallest registration index and changes nothing else, and it fails,
\* with GateNotAvailableError, only when no gate is free; likewise
\* assign_runway_for_departure with the available runways and
\* RunwayNotAvailableError.
C9_FirstFit ==
  \A fid \in FlightIds :
    LET i == find_flight(flights, fid)
        g == assign_gate(State, fid)
        w == assign_runway_for_departure(State, fid)
    IN i # 0 =>
         /\ IF \E k \in Gates : gates[k].occupied_by = None
            THEN g.err = OK /\ TookFirstFreeGate(g, i)
            ELSE g.err = "GateNotAvailableError"
         /\ IF \E k \in Runways : Available(runways[k])
            THEN w.err = OK /\ TookFirstAvailableRunway(w, i)
            ELSE w.err = "RunwayNotAvailableError"

\* two gates, the first taken and the second free, and two runways, the first
\* not available and the second available: the second of each is handed out
C9_Witness ==
  /\ Len(gates) = 2 /\ Len(runways) = 2 /\ Len(flights) = 2
  /\ gates[1].occupied_by # None /\ gates[2].occupied_by = None
  /\ ~Available(runways[1]) /\ Available(runways[2])
  /\ assign_gate(State, 2).ret = gates[2].id
  /\ assign_runway_for_departure(State, 2).ret = runways[2].id

\* ---- C10
\* C10: a runway's status is IN_USE exactly when its current_flight is set.
C10_InUseIffCurrentFlight ==
  \A k \in Runways :
    runways[k].status = "IN_USE" <=> runways[k].current_flight # None

\* a runway in use that was occupied by a direct Runway.occupy call: no flight
\* of the airport records it
C10_Witness ==
  \E k \in Runways :
    /\ runways[k].status = "IN_USE"
    /\ runways[k].current_flight # None
    /\ \A i \in Flights : flights[i].runway_id # runways[k].id

\* ---- C11
\* C11: arrive(f) on a registered flight succeeds exactly when f is AIRBORNE,
\* and then only sets f's status to LANDED (no gate, no runway, no other flight
\* is touched); from every other status it raises the error of the status
\* check (ValueError in the code) and changes nothing.
C11_ArriveOnlyFromAirborne ==
  \A fid \in FlightIds :
    LET i == find_flight(flights, fid)
        r == arrive(State, fid)
    IN i # 0 =>
         IF flights[i].status = "AIRBORNE"
         THEN /\ r.err = OK
              /\ r.flights = [flights EXCEPT ![i].status = "LANDED"]
              /\ r.gates = gates
              /\ r.runways = runways
         ELSE /\ r.err = "ValueError"
              /\ r.flights = flights
              /\ r.gates = gates
              /\ r.runways = runways

\* an AIRBORNE flight in an airport whose gate and runway are in use: arrive
\* lands it
C11_Witness ==
  \E i \in Flights :
    /\ flights[i].status = "AIRBORNE"
    /\ \E k \in Gates : gates[k].occupied_by # None
    /\ \E k \in Runways : runways[k].status # "FREE"
    /\ arrive(State, flights[i].id).flights[i].status = "LANDED"

\* ---- C12
\* C12: for every gate and runway, release() twice leaves what release() once
\* leaves, and release() on a free gate or on a FREE runway changes nothing.
\* (release has no raise statement: it is a total function of the object.)
C12_ReleaseIdempotent ==
  /\ \A k \in Gates :
       /\ Gate_release(Gate_release(gates[k])) = Gate_release(gates[k])
       /\ gates[k].occupied_by = None => Gate_release(gates[k]) = gates[k]
  /\ \A k \in Runways :
       /\ Runway_release(Runway_release(runways[k])) = Runway_release(runways[k])
       /\ (runways[k].status = "FREE" /\ runways[k].current_flight = None) =>
            Runway_release(runways[k]) = runways[k]

\* a free gate next to an occupied one, and a FREE runway that a direct
\* Runway.release has left with a flight still recording it
C12_Witness ==
  /\ \E k \in Gates : gates[k].occupied_by = None
  /\ \E k \in Gates : gates[k].occupied_by # None
  /\ \E k \in Runways :
       /\ runways[k].status = "FREE"
       /\ runways[k].current_flight = None
       /\ \E i \in Flights : flights[i].runway_id = runways[k].id

\* ---- C13
\* the flight-level calls on the flights of an airport: boarding, direct
\* set_status and the scheduler's pass
NextSched ==
  \/ AddFlight(MaxFlights, Aircrafts)
  \/ BoardPassengers \/ SetStatus \/ AutoReadyIfBoarded

SpecSched == Init /\ [][NextSched]_vars

\* C13: auto_ready_if_boarded sets to READY exactly the flights that are
\* BOARDING with passengers_checked_in equal to the capacity, changes no other
\* field and no other flight, and a second pass changes nothing more.
C13_AutoReadyExactAndIdempotent ==
  LET once == auto_ready_if_boarded(flights) IN
  /\ Len(once) = Len(flights)
  /\ \A i \in Flights :
       IF flights[i].status = "BOARDING"
          /\ flights[i].passengers_checked_in = capacity(flights[i].aircraft)
       THEN once[i] = [flights[i] EXCEPT !.status = "READY"]
       ELSE once[i] = flights[i]
  /\ auto_ready_if_boarded(once) = once

\* one flight boarded to capacity while BOARDING (set back from READY by a
\* direct set_status) and one BOARDING flight that is not yet full
C13_Witness ==
  \E i, j \in Flights :
    /\ flights[i].status = "BOARDING"
    /\ flights[i].passengers_checked_in = capacity(flights[i].aircraft)
    /\ flights[j].status = "BOARDING"
    /\ flights[j].passengers_checked_in < capacity(flights[j].aircraft)
    /\ auto_ready_if_boarded(flights)[i].status = "READY"
    /\ auto_ready_if_boarded(flights)[j].status = "BOARDING"

\* ---- C15
\* what each Airport operation called with this flight id would leave
AirportCalls(fid) ==
  {assign_gate(State, fid), release_gate(State, fid),
   assign_runway_for_departure(State, fid), depart(State, fid),
   arrive(State, fid)}

\* C15: no Airport operation changes a runway whose status is MAINTENANCE: it
\* is never occupied by assign_runway_for_departure and it stays MAINTENANCE.
C15_MaintenanceUntouched ==
  \A fid \in FlightIds : \A r \in AirportCalls(fid) :
    \A k \in Runways :
      runways[k].status = "MAINTENANCE" => r.runways[k] = runways[k]

\* the first runway is under maintenance and a flight was given the second
C15_Witness ==
  /\ Len(runways) = 2
  /\ runways[1].status = "MAINTENANCE"
  /\ runways[1].current_flight = None
  /\ runways[2].status = "IN_USE"
  /\ \E i \in Flights : /\ flights[i].runway_id = runways[2].id
                        /\ flights[i].id = runways[2].current_flight

\* ---- C16
\* the airport part of what a call left
After(r) == [gates |-> r.gates, runways |-> r.runways, flights |-> r.flights]

\* the canonical run for the flight at index i, from the current state:
\* assign_gate, board_passengers up to the capacity, assign_runway_for_departure,
\* depart, arrive; each step with what it raised and the flight's status after
CanonicalRun(i) ==
  LET fid == flights[i].id
      s1 == assign_gate(State, fid)
      b == board_passengers(s1.flights[i],
             capacity(flights[i].aircraft) - flights[i].passengers_checked_in)
      s2 == [After(s1) EXCEPT !.flights[i] = b.flight]
      s3 == assign_runway_for_departure(s2, fid)
      s4 == depart(After(s3), fid)
      s5 == arrive(After(s4), fid)
  IN [errs |-> <<s1.err, b.err, s3.err, s4.err, s5.err>>,
      statuses |-> <<s1.flights[i].status, b.flight.status, s3.flights[i].status,
                     s4.flights[i].status, s5.flights[i].status>>,
      end |-> After(s5)]

\* a passenger flight that can still board, a free gate and an available runway
CanRun(i) ==
  /\ IsPassenger(flights[i])
  /\ flights[i].status \in {"PLANNED", "BOARDING"}
  /\ \E k \in Gates : gates[k].occupied_by = None
  /\ \E k \in Runways : Available(runways[k])

\* C16: for a passenger flight with a free gate and an available runway at
\* hand, the canonical run succeeds at every step, passes through READY, TAXI
\* and AIRBORNE, ends LANDED, and leaves free every gate and available every
\* runway that was so at the start.
C16_CanonicalRunCompletes ==
  \A i \in Flights :
    CanRun(i) =>
      LET run == CanonicalRun(i) IN
      /\ run.errs = <<OK, OK, OK, OK, OK>>
      /\ run.statuses[2] = "READY"
      /\ run.statuses[3] = "TAXI"
      /\ run.statuses[4] = "AIRBORNE"
      /\ run.statuses[5] = "LANDED"
      /\ \A k \in Gates :
           gates[k].occupied_by = None => run.end.gates[k].occupied_by = None
      /\ \A k \in Runways :
           Available(runways[k]) => Available(run.end.runways[k])

\* a PLANNED passenger flight with some passengers on board, a free gate and
\* an available runway: the run lands it
C16_Witness ==
  \E i \in Flights :
    /\ CanRun(i)
    /\ flights[i].passengers_checked_in = 1
    /\ CanonicalRun(i).statuses[5] = "LANDED"
    /\ CanonicalRun(i).end.flights[i].passengers_checked_in
         = capacity(flights[i].aircraft)

\* ---- C18
\* C18: a gate id recorded on a flight is the id of a registered gate whose
\* occupied_by is that flight, and a runway id recorded on a flight is the id
\* of a registered runway that is IN_USE with that flight as current_flight.
C18_ForwardReferencesValid ==
  \A i \in Flights :
    /\ flights[i].gate_id # None =>
         \E k \in Gates : /\ gates[k].id = flights[i].gate_id
                          /\ gates[k].occupied_by = flights[i].id
    /\ flights[i].runway_id # None =>
         \E k \in Runways : /\ runways[k].id = flights[i].runway_id
                            /\ runways[k].current_flight = flights[i].id
                            /\ runways[k].status = "IN_USE"

\* a flight that was handed a second gate and a second runway: its references
\* are those of the second ones, next to another flight that holds nothing
C18_Witness ==
  /\ Len(flights) = 2
  /\ flights[1].gate_id = 2 /\ flights[1].runway_id = 2
  /\ flights[2].gate_id = None /\ flights[2].runway_id = None
  /\ flights[2].status = "AIRBORNE"

\* ---- C19
\* C19: every runway whose current_flight is set is the runway recorded on
\* that flight (so once the flight has departed no runway names it), and
\* likewise no gate names a flight that has departed.
C19_NoOrphanedRunway ==
  /\ \A k \in Runways :
       runways[k].current_flight # None =>
         \E i \in Flights : /\ flights[i].id = runways[k].current_flight
                            /\ flights[i].runway_id = runways[k].id
  /\ \A fid \in FlightIds :
       LET r == depart(State, fid) IN
       (find_flight(flights, fid) # 0 /\ r.err = OK) =>
         /\ \A k \in Runways : r.runways[k].current_flight # fid
         /\ \A k \in Gates : r.gates[k].occupied_by # fid

\* ---- C20
\* C20: with the Airport operations, boarding and the scheduler's pass alone,
\* a flight that holds a runway is in status TAXI; so depart on a READY flight
\* fails with the error of the missing runway (ValueError in the code) and
\* changes nothing, and every depart that succeeds starts from TAXI.
C20_RunwayHeldOnlyInTaxi ==
  /\ \A i \in Flights :
       flights[i].runway_id # None => flights[i].status = "TAXI"
  /\ \A fid \in FlightIds :
       LET i == find_flight(flights, fid)
           r == depart(State, fid)
       IN i # 0 =>
            /\ flights[i].status = "READY" =>
                 r.err = "ValueError" /\ After(r) = State
            /\ r.err = OK => flights[i].status = "TAXI"

\* a flight boarded to READY with a runway free for it: depart is refused
C20_Witness ==
  \E i \in Flights :
    /\ flights[i].status = "READY"
    /\ \E k \in Runways : Available(runways[k])
    /\ depart(State, flights[i].id).err = "ValueError"

\* ------------------------------------------------------------- Schedule
\* Schedule.flights is a dict: unique keys, entries kept in insertion order
Entry(key, value) == [key |-> key, value |-> value]

Keys(d) == {d[i].key : i \in 1..Len(d)}

\* d[key] = value: replaces the value of an existing key, else inserts last
dict_set(d, key, value) ==
  IF key \in Keys(d)
  THEN [i \in 1..Len(d) |-> IF d[i].key = key THEN Entry(key, value) ELSE d[i]]
  ELSE Append(d, Entry(key, value))

\* del d[key]
dict_del(d, key) == SelectSeq(d, LAMBDA e : e.key # key)

\* mutant: an id already present is not refused, the entry is overwritten
Schedule_add_flight_overwrites(d, flight) ==
  [flights |-> dict_set(d, flight.id, flight), err |-> OK]

Schedule_add_flight(d, flight) ==
  IF flight.id \in Keys(d)
  THEN [flights |-> d, err |-> "SchedulingError"]
  ELSE [flights |-> dict_set(d, flight.id, flight), err |-> OK]

Schedule_remove_flight(d, flight_id) ==
  IF flight_id \notin Keys(d)
  THEN [flights |-> d, err |-> "FlightNotFoundError"]
  ELSE [flights |-> dict_del(d, flight_id), err |-> OK]

\* the Flight objects a caller may hand to a Schedule: any id, aircraft and
\* status (an object added a second time may have changed since)
ScheduledFlights ==
  {set_status(Flight(id, a), st) :
     id \in FlightIds, a \in Aircrafts, st \in FlightStatus}

ScheduleAddFlight ==
  /\ \E f \in ScheduledFlights :
       schedule' = Schedule_add_flight(schedule, f).flights
  /\ UNCHANGED <<gates, runways, flights, calls>>

ScheduleRemoveFlight ==
  /\ \E id \in FlightIds :
       schedule' = Schedule_remove_flight(schedule, id).flights
  /\ UNCHANGED <<gates, runways, flights, calls>>

NextSchedule == ScheduleAddFlight \/ ScheduleRemoveFlight

SpecSchedule == Init /\ [][NextSchedule]_vars

\* C14: the keys of a Schedule stay unique; add_flight of an id already
\* present raises the duplicate error (SchedulingError in the code) and leaves
\* every entry as it was, remove_flight of an absent id raises
\* FlightNotFoundError and leaves every entry as it was, and a successful
\* add_flight followed by remove_flight of the same id gives back the mapping
\* from before the add.
C14_ScheduleIdsUnique ==
  /\ \A i, j \in 1..Len(schedule) :
       schedule[i].key = schedule[j].key => i = j
  /\ \A i \in 1..Len(schedule) : schedule[i].value.id = schedule[i].key
  /\ \A f \in ScheduledFlights :
       LET r == Schedule_add_flight(schedule, f) IN
       IF f.id \in Keys(schedule)
       THEN r.err = "SchedulingError" /\ r.flights = schedule
       ELSE /\ r.err = OK
            /\ r.flights = Append(schedule, Entry(f.id, f))
            /\ Schedule_remove_flight(r.flights, f.id) =
                 [flights |-> schedule, err |-> OK]
  /\ \A id \in FlightIds :
       LET r == Schedule_remove_flight(schedule, id) IN
       IF id \notin Keys(schedule)
       THEN r.err = "FlightNotFoundError" /\ r.flights = schedule
       ELSE r.err = OK /\ Keys(r.flights) = Keys(schedule) \ {id}

\* a schedule holding one id and not another: a duplicate add, an absent
\* remove and an add-then-remove are all possible here
C14_Witness ==
  /\ Len(schedule) >= 1
  /\ \E id \in FlightIds : id \notin Keys(schedule)
  /\ \E f \in ScheduledFlights :
       /\ f.id \in Keys(schedule)
       /\ \E i \in 1..Len(schedule) :
            schedule[i].key = f.id /\ schedule[i].value # f

\* ------------------------------------------------------------- interleaving
\* Airport.assign_gate and Airport.assign_runway_for_departure take no lock.
\* Caller t runs them for flight t, one step at a time: find_flight, the
\* availability test of the scan, the test repeated inside Gate.assign /
\* Runway.occupy, the write to the gate / runway, the write to the flight.
AssignOps == {"assign_gate", "assign_runway_for_departure"}

Pool(op) == IF op = "assign_gate" THEN gates ELSE runways

Usable(op, k) ==
  IF op = "assign_gate" THEN is_free(gates[k]) ELSE is_available(runways[k])

\* flight = self.find_flight(flight_id), then the loop starts at the first
\* gate / runway
CallStep(t) ==
  /\ calls[t].pc = "idle"
  /\ \E op \in AssignOps :
       calls' = [calls EXCEPT ![t] =
         IF find_flight(flights, t) = 0
         THEN [op |-> op, pc |-> "done", fid |-> t, k |-> 0,
               err |-> "FlightNotFoundError"]
         ELSE [op |-> op, pc |-> "scan", fid |-> t, k |-> 1, err |-> OK]]
  /\ UNCHANGED <<gates, runways, flights, schedule>>

\* for g in self.gates: if g.is_free() / for r in self.runways:
\* if r.is_available(); the loop running out raises the not-available error
ScanStep(t) ==
  LET c == calls[t] IN
  /\ c.pc = "scan"
  /\ calls' = [calls EXCEPT ![t] =
       IF c.k > Len(Pool(c.op))
       THEN [c EXCEPT !.pc = "done",
                      !.err = IF c.op = "assign_gate"
                              THEN "GateNotAvailableError"
                              ELSE "RunwayNotAvailableError"]
       ELSE IF Usable(c.op, c.k) THEN [c EXCEPT !.pc = "check"]
       ELSE [c EXCEPT !.k = c.k + 1]]
  /\ UNCHANGED <<gates, runways, flights, schedule>>

\* Gate.assign: if not self.is_free(): raise ValueError
\* Runway.occupy: if not self.is_available(): raise ValueError
CheckStep(t) ==
  LET c == calls[t] IN
  /\ c.pc = "check"
  /\ calls' = [calls EXCEPT ![t] =
       IF Usable(c.op, c.k) THEN [c EXCEPT !.pc = "write"]
       ELSE [c EXCEPT !.pc = "done", !.err = "ValueError"]]
  /\ UNCHANGED <<gates, runways, flights, schedule>>

\* self.occupied_by = flight_id / self.current_flight = flight_id and
\* self.status = IN_USE
WriteStep(t) ==
  LET c == calls[t] IN
  /\ c.pc = "write"
  /\ IF c.op = "assign_gate"
     THEN /\ gates' = [gates EXCEPT ![c.k].occupied_by = c.fid]
          /\ UNCHANGED runways
     ELSE /\ runways' = [runways EXCEPT ![c.k].current_flight = c.fid,
                                        ![c.k].status = "IN_USE"]
          /\ UNCHANGED gates
  /\ calls' = [calls EXCEPT ![t].pc = "record"]
  /\ UNCHANGED <<flights, schedule>>

\* flight.gate_id = g.id / flight.runway_id = r.id and set_status(TAXI),
\* then the call returns
RecordStep(t) ==
  LET c == calls[t]
      i == find_flight(flights, c.fid) IN
  /\ c.pc = "record"
  /\ flights' = [flights EXCEPT ![i] =
       IF c.op = "assign_gate" THEN [@ EXCEPT !.gate_id = gates[c.k].id]
       ELSE set_status([@ EXCEPT !.runway_id = runways[c.k].id], "TAXI")]
  /\ calls' = [calls EXCEPT ![t].pc = "done"]
  /\ UNCHANGED <<gates, runways, schedule>>

\* the caller has seen the outcome and may call again
ReturnStep(t) ==
  /\ calls[t].pc = "done"
  /\ calls' = [calls EXCEPT ![t] = Idle]
  /\ UNCHANGED <<gates, runways, flights, schedule>>

NextRace ==
  \/ AddGate(MaxGatesOrch) \/ AddRunway(MaxRunwaysOrch)
  \/ AddFlight(MaxFlights, {PassengerAircraft})
  \/ \E t \in Threads :
       \/ CallStep(t) \/ ScanStep(t) \/ CheckStep(t)
       \/ WriteStep(t) \/ RecordStep(t) \/ ReturnStep(t)

SpecRace == Init /\ [][NextRace]_vars

\* C17: however the steps of assign_gate / assign_runway_for_departure calls
\* for two different registered flights interleave, no two flights record the
\* same gate or the same runway, and a call ends normally or with
\* GateNotAvailableError / RunwayNotAvailableError (FlightNotFoundError for a
\* flight not yet registered), never with another error.
C17_ScanAndMutationAtomic ==
  /\ \A i, j \in Flights :
       i # j =>
         /\ flights[i].gate_id # None => flights[i].gate_id # flights[j].gate_id
         /\ flights[i].runway_id # None =>
              flights[i].runway_id # flights[j].runway_id
  /\ \A t \in Threads :
       calls[t].err \in {OK, "GateNotAvailableError",
                         "RunwayNotAvailableError", "FlightNotFoundError"}

====
